---- MODULE Spec2Model ----
(***************************************************************************)
(* State-machine model of CloudStorageImpl (src/cloud_storage_impl.py):    *)
(* an in-memory file store with per-user quota accounting, user merging    *)
(* and single-slot backup / restore snapshots.                             *)
(*                                                                         *)
(* Strings are modelled as sequences of character codes, so that prefix    *)
(* matching, lexicographic comparison and "name(size)" formatting are      *)
(* computed rather than assumed.  Optional[int] results are modelled as    *)
(* None == << >> and Some(v) == << v >>.                                   *)
(***************************************************************************)
EXTENDS Integers, Sequences, FiniteSets, TLC

\* ------------------------------------------------------------------------
\* Bounds of the model
\* ------------------------------------------------------------------------
MaxSize == 1
MaxCap == 1
MaxMergedCap == 2
MaxN == 2
MaxOps == 6

\* ------------------------------------------------------------------------
\* Input domains
\* ------------------------------------------------------------------------
\* File names "a" and "ab" (character codes); prefixes "", "a", "ab", "b".
Names == { <<97>>, <<97, 98>> }
Prefixes == { << >>, <<97>>, <<97, 98>>, <<98>> }
ADMIN == "admin"
UserIds == { "u1", "u2" }
Ids == UserIds \cup { ADMIN }
Sizes == 0..MaxSize
Caps == 0..MaxCap
Counts == 0..MaxN

None == << >>
Some(v) == << v >>

VARIABLES
    files,      \* self._files   : name -> size
    owners,     \* self._owners  : name -> identity
    users,      \* self._users   : user id -> [capacity, used]
    backups,    \* self._backups : identity -> (name -> size)
    pre,        \* the four maps as they were before the last call
    last,       \* the last call: [op, args, ret]
    nops        \* number of calls made so far

vars == << files, owners, users, backups, pre, last, nops >>

\* ------------------------------------------------------------------------
\* Dictionaries
\* ------------------------------------------------------------------------
EmptyDict == [x \in {} |-> 0]
Put(d, k, v) == [x \in (DOMAIN d) \cup {k} |-> IF x = k THEN v ELSE d[x]]
Pop(d, k) == [x \in (DOMAIN d) \ {k} |-> d[x]]
PopAll(d, ks) == [x \in (DOMAIN d) \ ks |-> d[x]]

RECURSIVE SumOver(_, _)
SumOver(d, ks) ==
    IF ks = {} THEN 0
    ELSE LET k == CHOOSE x \in ks : TRUE
         IN  d[k] + SumOver(d, ks \ {k})

\* The engine's state as one value.
St == [files |-> files, owners |-> owners, users |-> users, backups |-> backups]

EmptyEngine ==
    [files |-> EmptyDict, owners |-> EmptyDict,
     users |-> EmptyDict, backups |-> EmptyDict]

\* Names whose owner link is id.
OwnedBy(st, id) == { p \in DOMAIN st.owners : st.owners[p] = id }

\* ------------------------------------------------------------------------
\* File operations
\* ------------------------------------------------------------------------
add_file(st, name, size) ==
    IF name \in DOMAIN st.files
    THEN [st |-> st, ret |-> FALSE]
    ELSE [st |-> [st EXCEPT !.files = Put(st.files, name, size),
                            !.owners = Put(st.owners, name, ADMIN)],
          ret |-> TRUE]

get_file_size(st, name) ==
    [st |-> st,
     ret |-> IF name \in DOMAIN st.files THEN Some(st.files[name]) ELSE None]

\* Mutant: the owner's used is not decreased.
delete_file_KeepsUsed(st, name) ==
    IF name \notin DOMAIN st.files
    THEN [st |-> st, ret |-> None]
    ELSE [st |-> [st EXCEPT !.files = Pop(st.files, name),
                            !.owners = Pop(st.owners, name)],
          ret |-> Some(st.files[name])]

\* Mutant: a size of 0 is taken for "no such file".
delete_file_FalsySize(st, name) ==
    IF name \notin DOMAIN st.files \/ st.files[name] = 0
    THEN [st |-> st, ret |-> None]
    ELSE LET size == st.files[name]
             owner == st.owners[name]
         IN  [st |-> [st EXCEPT
                        !.files = Pop(st.files, name),
                        !.owners = Pop(st.owners, name),
                        !.users = IF owner \in DOMAIN st.users
                                  THEN [st.users EXCEPT ![owner].used = @ - size]
                                  ELSE st.users],
              ret |-> Some(size)]

delete_file(st, name) ==
    IF name \notin DOMAIN st.files
    THEN [st |-> st, ret |-> None]
    ELSE LET size == st.files[name]
             owner == st.owners[name]
         IN  [st |-> [st EXCEPT
                        !.files = Pop(st.files, name),
                        !.owners = Pop(st.owners, name),
                        !.users = IF owner \in DOMAIN st.users
                                  THEN [st.users EXCEPT ![owner].used = @ - size]
                                  ELSE st.users],
              ret |-> Some(size)]

\* ------------------------------------------------------------------------
\* get_n_largest: strings, ordering and formatting
\* ------------------------------------------------------------------------
Min(a, b) == IF a <= b THEN a ELSE b

\* str.startswith
StartsWith(path, prefix) ==
    /\ Len(prefix) <= Len(path)
    /\ SubSeq(path, 1, Len(prefix)) = prefix

\* Python's < on str: lexicographic by code point, a proper prefix is smaller.
RECURSIVE StrLess(_, _)
StrLess(s, t) ==
    IF t = << >> THEN FALSE
    ELSE IF s = << >> THEN TRUE
    ELSE IF Head(s) # Head(t) THEN Head(s) < Head(t)
    ELSE StrLess(Tail(s), Tail(t))

\* Mutant: the size is not negated in the key (ascending by size).
KeyLess_Ascending(x, y) ==
    \/ x[2] < y[2]
    \/ (x[2] = y[2] /\ StrLess(x[1], y[1]))

\* Order of the sort key (-size, name) on (path, sz) pairs.
KeyLess(x, y) ==
    \/ -x[2] < -y[2]
    \/ (x[2] = y[2] /\ StrLess(x[1], y[1]))

\* list.sort(key=...) on the matches; the keys are pairwise distinct because
\* the names are, so the sorted list does not depend on the input order.
RECURSIVE SortMatches(_)
SortMatches(ms) ==
    IF ms = {} THEN << >>
    ELSE LET m == CHOOSE x \in ms : \A y \in ms \ {x} : KeyLess(x, y)
         IN  << m >> \o SortMatches(ms \ {m})

\* matches[:n] for n >= 0
Take(seq, n) == SubSeq(seq, 1, Min(n, Len(seq)))

\* str(int) for a non-negative int, as character codes.
RECURSIVE Digits(_)
Digits(k) ==
    IF k < 10 THEN << 48 + k >>
    ELSE Digits(k \div 10) \o << 48 + (k % 10) >>

\* f"{path}({sz})"
Format(path, sz) == path \o << 40 >> \o Digits(sz) \o << 41 >>

get_n_largest(st, prefix, n) ==
    LET matches == { << path, st.files[path] >> :
                        path \in { q \in DOMAIN st.files : StartsWith(q, prefix) } }
        sorted == SortMatches(matches)
        top == Take(sorted, n)
    IN  [st |-> st,
         ret |-> [i \in 1..Len(top) |-> Format(top[i][1], top[i][2])]]

\* ------------------------------------------------------------------------
\* User operations
\* ------------------------------------------------------------------------
\* Mutant: a registered user is not refused, its record is replaced.
add_user_Overwrites(st, user_id, capacity) ==
    IF user_id = ADMIN
    THEN [st |-> st, ret |-> FALSE]
    ELSE [st |-> [st EXCEPT !.users =
                    Put(st.users, user_id, [capacity |-> capacity, used |-> 0])],
          ret |-> TRUE]

add_user(st, user_id, capacity) ==
    IF user_id = ADMIN \/ user_id \in DOMAIN st.users
    THEN [st |-> st, ret |-> FALSE]
    ELSE [st |-> [st EXCEPT !.users =
                    Put(st.users, user_id, [capacity |-> capacity, used |-> 0])],
          ret |-> TRUE]

\* Mutant: an existing name is not refused.
add_file_by_NoExistsCheck(st, user_id, name, size) ==
    IF user_id \notin DOMAIN st.users
    THEN [st |-> st, ret |-> None]
    ELSE LET user == st.users[user_id]
         IN  IF user.used + size > user.capacity
             THEN [st |-> st, ret |-> None]
             ELSE [st |-> [st EXCEPT
                            !.files = Put(st.files, name, size),
                            !.owners = Put(st.owners, name, user_id),
                            !.users = [st.users EXCEPT ![user_id].used = @ + size]],
                   ret |-> Some(user.capacity - (user.used + size))]

\* Mutant: the quota test is >= instead of >.
add_file_by_StrictQuota(st, user_id, name, size) ==
    IF user_id \notin DOMAIN st.users \/ name \in DOMAIN st.files
    THEN [st |-> st, ret |-> None]
    ELSE LET user == st.users[user_id]
         IN  IF user.used + size >= user.capacity
             THEN [st |-> st, ret |-> None]
             ELSE [st |-> [st EXCEPT
                            !.files = Put(st.files, name, size),
                            !.owners = Put(st.owners, name, user_id),
                            !.users = [st.users EXCEPT ![user_id].used = @ + size]],
                   ret |-> Some(user.capacity - (user.used + size))]

\* Mutant: the quota is not tested.
add_file_by_NoQuota(st, user_id, name, size) ==
    IF user_id \notin DOMAIN st.users \/ name \in DOMAIN st.files
    THEN [st |-> st, ret |-> None]
    ELSE LET user == st.users[user_id]
         IN  [st |-> [st EXCEPT
                        !.files = Put(st.files, name, size),
                        !.owners = Put(st.owners, name, user_id),
                        !.users = [st.users EXCEPT ![user_id].used = @ + size]],
              ret |-> Some(user.capacity - (user.used + size))]

add_file_by(st, user_id, name, size) ==
    IF user_id \notin DOMAIN st.users \/ name \in DOMAIN st.files
    THEN [st |-> st, ret |-> None]
    ELSE LET user == st.users[user_id]
         IN  IF user.used + size > user.capacity
             THEN [st |-> st, ret |-> None]
             ELSE [st |-> [st EXCEPT
                            !.files = Put(st.files, name, size),
                            !.owners = Put(st.owners, name, user_id),
                            !.users = [st.users EXCEPT ![user_id].used = @ + size]],
                   ret |-> Some(user.capacity - (user.used + size))]

\* Mutant: the owner links of user_id_2 are not rewritten.
merge_user_KeepsOwners(st, user_id_1, user_id_2) ==
    IF \/ user_id_1 \notin DOMAIN st.users
       \/ user_id_2 \notin DOMAIN st.users
       \/ user_id_1 = user_id_2
    THEN [st |-> st, ret |-> None]
    ELSE LET u1 == st.users[user_id_1]
             u2 == st.users[user_id_2]
             merged == [capacity |-> u1.capacity + u2.capacity,
                        used |-> u1.used + u2.used]
         IN  [st |-> [st EXCEPT
                        !.users = Pop([st.users EXCEPT ![user_id_1] = merged],
                                      user_id_2),
                        !.backups = Pop(st.backups, user_id_2)],
              ret |-> Some(merged.capacity - merged.used)]

\* Mutant: the snapshot of user_id_2 is not discarded.
merge_user_KeepsBackup(st, user_id_1, user_id_2) ==
    IF \/ user_id_1 \notin DOMAIN st.users
       \/ user_id_2 \notin DOMAIN st.users
       \/ user_id_1 = user_id_2
    THEN [st |-> st, ret |-> None]
    ELSE LET u1 == st.users[user_id_1]
             u2 == st.users[user_id_2]
             merged == [capacity |-> u1.capacity + u2.capacity,
                        used |-> u1.used + u2.used]
         IN  [st |-> [st EXCEPT
                        !.owners = [p \in DOMAIN st.owners |->
                                      IF st.owners[p] = user_id_2
                                      THEN user_id_1 ELSE st.owners[p]],
                        !.users = Pop([st.users EXCEPT ![user_id_1] = merged],
                                      user_id_2)],
              ret |-> Some(merged.capacity - merged.used)]

\* Mutant: the record of user_id_1 is deleted instead of that of user_id_2.
merge_user_DeletesTarget(st, user_id_1, user_id_2) ==
    IF \/ user_id_1 \notin DOMAIN st.users
       \/ user_id_2 \notin DOMAIN st.users
       \/ user_id_1 = user_id_2
    THEN [st |-> st, ret |-> None]
    ELSE LET u1 == st.users[user_id_1]
             u2 == st.users[user_id_2]
             merged == [capacity |-> u1.capacity + u2.capacity,
                        used |-> u1.used + u2.used]
         IN  [st |-> [st EXCEPT
                        !.owners = [p \in DOMAIN st.owners |->
                                      IF st.owners[p] = user_id_2
                                      THEN user_id_1 ELSE st.owners[p]],
                        !.users = Pop([st.users EXCEPT ![user_id_1] = merged],
                                      user_id_1),
                        !.backups = Pop(st.backups, user_id_2)],
              ret |-> Some(merged.capacity - merged.used)]

\* Mutant: a user may be merged with itself.
merge_user_NoSelfCheck(st, user_id_1, user_id_2) ==
    IF \/ user_id_1 \notin DOMAIN st.users
       \/ user_id_2 \notin DOMAIN st.users
    THEN [st |-> st, ret |-> None]
    ELSE LET u1 == st.users[user_id_1]
             u2 == st.users[user_id_2]
             merged == [capacity |-> u1.capacity + u2.capacity,
                        used |-> u1.used + u2.used]
         IN  [st |-> [st EXCEPT
                        !.owners = [p \in DOMAIN st.owners |->
                                      IF st.owners[p] = user_id_2
                                      THEN user_id_1 ELSE st.owners[p]],
                        !.users = Pop([st.users EXCEPT ![user_id_1] = merged],
                                      user_id_2),
                        !.backups = Pop(st.backups, user_id_2)],
              ret |-> Some(merged.capacity - merged.used)]

\* Mutant: the capacity of user_id_2 is not added to that of user_id_1.
merge_user_KeepsCapacity(st, user_id_1, user_id_2) ==
    IF \/ user_id_1 \notin DOMAIN st.users
       \/ user_id_2 \notin DOMAIN st.users
       \/ user_id_1 = user_id_2
    THEN [st |-> st, ret |-> None]
    ELSE LET u1 == st.users[user_id_1]
             u2 == st.users[user_id_2]
             merged == [capacity |-> u1.capacity,
                        used |-> u1.used + u2.used]
         IN  [st |-> [st EXCEPT
                        !.owners = [p \in DOMAIN st.owners |->
                                      IF st.owners[p] = user_id_2
                                      THEN user_id_1 ELSE st.owners[p]],
                        !.users = Pop([st.users EXCEPT ![user_id_1] = merged],
                                      user_id_2),
                        !.backups = Pop(st.backups, user_id_2)],
              ret |-> Some(merged.capacity - merged.used)]

merge_user(st, user_id_1, user_id_2) ==
    IF \/ user_id_1 \notin DOMAIN st.users
       \/ user_id_2 \notin DOMAIN st.users
       \/ user_id_1 = user_id_2
    THEN [st |-> st, ret |-> None]
    ELSE LET u1 == st.users[user_id_1]
             u2 == st.users[user_id_2]
             merged == [capacity |-> u1.capacity + u2.capacity,
                        used |-> u1.used + u2.used]
         IN  [st |-> [st EXCEPT
                        !.owners = [p \in DOMAIN st.owners |->
                                      IF st.owners[p] = user_id_2
                                      THEN user_id_1 ELSE st.owners[p]],
                        !.users = Pop([st.users EXCEPT ![user_id_1] = merged],
                                      user_id_2),
                        !.backups = Pop(st.backups, user_id_2)],
              ret |-> Some(merged.capacity - merged.used)]

\* ------------------------------------------------------------------------
\* Backup and restore
\* ------------------------------------------------------------------------
\* Mutant: the new snapshot is merged into the prior one instead of replacing it.
backup_user_Merges(st, user_id) ==
    IF user_id # ADMIN /\ user_id \notin DOMAIN st.users
    THEN [st |-> st, ret |-> None]
    ELSE LET prior == IF user_id \in DOMAIN st.backups
                      THEN st.backups[user_id] ELSE EmptyDict
             owned == OwnedBy(st, user_id)
             snapshot == [path \in (DOMAIN prior) \cup owned |->
                            IF path \in owned THEN st.files[path] ELSE prior[path]]
         IN  [st |-> [st EXCEPT !.backups = Put(st.backups, user_id, snapshot)],
              ret |-> Some(Cardinality(DOMAIN snapshot))]

backup_user(st, user_id) ==
    IF user_id # ADMIN /\ user_id \notin DOMAIN st.users
    THEN [st |-> st, ret |-> None]
    ELSE LET snapshot == [path \in OwnedBy(st, user_id) |-> st.files[path]]
         IN  [st |-> [st EXCEPT !.backups = Put(st.backups, user_id, snapshot)],
              ret |-> Some(Cardinality(DOMAIN snapshot))]

\* Mutant: a file overwritten in place is not counted as restored.
RestoreEntry_NoCountInPlace(acc, user_id, path, size) ==
    LET st == acc.st
    IN  IF path \in DOMAIN st.files
        THEN IF st.owners[path] # user_id
             THEN IF user_id = ADMIN
                  THEN LET old_owner == st.owners[path]
                           old_size == st.files[path]
                       IN  [st |-> [st EXCEPT
                                     !.users = IF old_owner \in DOMAIN st.users
                                               THEN [st.users EXCEPT
                                                       ![old_owner].used = @ - old_size]
                                               ELSE st.users,
                                     !.files = Put(st.files, path, size),
                                     !.owners = Put(st.owners, path, ADMIN)],
                            restored |-> acc.restored + 1]
                  ELSE acc
             ELSE [st |-> [st EXCEPT
                            !.users = IF user_id \in DOMAIN st.users
                                      THEN [st.users EXCEPT ![user_id].used =
                                              @ + (size - st.files[path])]
                                      ELSE st.users,
                            !.files = Put(st.files, path, size)],
                   restored |-> acc.restored]
        ELSE [st |-> [st EXCEPT
                       !.files = Put(st.files, path, size),
                       !.owners = Put(st.owners, path, user_id),
                       !.users = IF user_id \in DOMAIN st.users
                                 THEN [st.users EXCEPT ![user_id].used = @ + size]
                                 ELSE st.users],
              restored |-> acc.restored + 1]

\* Mutant: a reclaim by admin does not decrease the old owner's used.
RestoreEntry_ReclaimKeepsUsed(acc, user_id, path, size) ==
    LET st == acc.st
    IN  IF path \in DOMAIN st.files
        THEN IF st.owners[path] # user_id
             THEN IF user_id = ADMIN
                  THEN [st |-> [st EXCEPT
                                 !.files = Put(st.files, path, size),
                                 !.owners = Put(st.owners, path, ADMIN)],
                        restored |-> acc.restored + 1]
                  ELSE acc
             ELSE [st |-> [st EXCEPT
                            !.users = IF user_id \in DOMAIN st.users
                                      THEN [st.users EXCEPT ![user_id].used =
                                              @ + (size - st.files[path])]
                                      ELSE st.users,
                            !.files = Put(st.files, path, size)],
                   restored |-> acc.restored + 1]
        ELSE [st |-> [st EXCEPT
                       !.files = Put(st.files, path, size),
                       !.owners = Put(st.owners, path, user_id),
                       !.users = IF user_id \in DOMAIN st.users
                                 THEN [st.users EXCEPT ![user_id].used = @ + size]
                                 ELSE st.users],
              restored |-> acc.restored + 1]

\* Mutant: a registered user reclaims files of other owners as admin does.
RestoreEntry_AnyoneReclaims(acc, user_id, path, size) ==
    LET st == acc.st
    IN  IF path \in DOMAIN st.files
        THEN IF st.owners[path] # user_id
             THEN LET old_owner == st.owners[path]
                      old_size == st.files[path]
                  IN  [st |-> [st EXCEPT
                                !.users = IF old_owner \in DOMAIN st.users
                                          THEN [st.users EXCEPT
                                                  ![old_owner].used = @ - old_size]
                                          ELSE st.users,
                                !.files = Put(st.files, path, size),
                                !.owners = Put(st.owners, path, user_id)],
                       restored |-> acc.restored + 1]
             ELSE [st |-> [st EXCEPT
                            !.users = IF user_id \in DOMAIN st.users
                                      THEN [st.users EXCEPT ![user_id].used =
                                              @ + (size - st.files[path])]
                                      ELSE st.users,
                            !.files = Put(st.files, path, size)],
                   restored |-> acc.restored + 1]
        ELSE [st |-> [st EXCEPT
                       !.files = Put(st.files, path, size),
                       !.owners = Put(st.owners, path, user_id),
                       !.users = IF user_id \in DOMAIN st.users
                                 THEN [st.users EXCEPT ![user_id].used = @ + size]
                                 ELSE st.users],
              restored |-> acc.restored + 1]

\* One iteration of "for path, size in backup.items()"; acc = [st, restored].
RestoreEntry(acc, user_id, path, size) ==
    LET st == acc.st
    IN  IF path \in DOMAIN st.files
        THEN IF st.owners[path] # user_id
             THEN IF user_id = ADMIN
                  THEN LET old_owner == st.owners[path]
                           old_size == st.files[path]
                       IN  [st |-> [st EXCEPT
                                     !.users = IF old_owner \in DOMAIN st.users
                                               THEN [st.users EXCEPT
                                                       ![old_owner].used = @ - old_size]
                                               ELSE st.users,
                                     !.files = Put(st.files, path, size),
                                     !.owners = Put(st.owners, path, ADMIN)],
                            restored |-> acc.restored + 1]
                  ELSE acc
             ELSE [st |-> [st EXCEPT
                            !.users = IF user_id \in DOMAIN st.users
                                      THEN [st.users EXCEPT ![user_id].used =
                                              @ + (size - st.files[path])]
                                      ELSE st.users,
                            !.files = Put(st.files, path, size)],
                   restored |-> acc.restored + 1]
        ELSE [st |-> [st EXCEPT
                       !.files = Put(st.files, path, size),
                       !.owners = Put(st.owners, path, user_id),
                       !.users = IF user_id \in DOMAIN st.users
                                 THEN [st.users EXCEPT ![user_id].used = @ + size]
                                 ELSE st.users],
              restored |-> acc.restored + 1]

\* Mutant: the loop stops (break for continue) at the first entry that a
\* registered user finds owned by someone else.
RECURSIVE RestoreLoop_BreaksOnForeign(_, _, _, _)
RestoreLoop_BreaksOnForeign(acc, user_id, backup, order) ==
    IF order = << >> THEN acc
    ELSE IF /\ Head(order) \in DOMAIN acc.st.files
            /\ acc.st.owners[Head(order)] # user_id
            /\ user_id # ADMIN
         THEN acc
         ELSE RestoreLoop_BreaksOnForeign(
                  RestoreEntry(acc, user_id, Head(order), backup[Head(order)]),
                  user_id, backup, Tail(order))

\* The loop over backup.items(), entries visited in the given order.
RECURSIVE RestoreLoop(_, _, _, _)
RestoreLoop(acc, user_id, backup, order) ==
    IF order = << >> THEN acc
    ELSE RestoreLoop(RestoreEntry(acc, user_id, Head(order), backup[Head(order)]),
                     user_id, backup, Tail(order))

\* The final recomputation of used from the owner links.
RecomputeUsed(st, user_id) ==
    IF user_id \in DOMAIN st.users
    THEN [st EXCEPT !.users[user_id].used =
            SumOver(st.files, OwnedBy(st, user_id))]
    ELSE st

\* Mutant: used is not reset when there is no snapshot.
RestoreNoBackup_KeepsUsed(st, user_id) ==
    LET current == OwnedBy(st, user_id)
    IN  [st |-> [st EXCEPT
                  !.files = PopAll(st.files, current),
                  !.owners = PopAll(st.owners, current)],
         ret |-> Some(0)]

\* The branch taken when no snapshot is recorded: drop every file of user_id.
RestoreNoBackup(st, user_id) ==
    LET current == OwnedBy(st, user_id)
    IN  [st |-> [st EXCEPT
                  !.files = PopAll(st.files, current),
                  !.owners = PopAll(st.owners, current),
                  !.users = IF user_id \in DOMAIN st.users
                            THEN [st.users EXCEPT ![user_id].used = 0]
                            ELSE st.users],
         ret |-> Some(0)]

\* Mutant: files added since the backup are not pruned.
PruneStale_Nothing(st, user_id, backup) == st

\* The first loop of the snapshot branch: drop the files of user_id that the
\* snapshot does not name.
PruneStale(st, user_id, backup) ==
    LET stale == OwnedBy(st, user_id) \ DOMAIN backup
    IN  [st EXCEPT !.files = PopAll(st.files, stale),
                   !.owners = PopAll(st.owners, stale)]

\* Mutant: the snapshot is removed once it has been restored.
restore_user_ConsumesSnapshot(st, user_id, order) ==
    IF user_id # ADMIN /\ user_id \notin DOMAIN st.users
    THEN [st |-> st, ret |-> None]
    ELSE IF user_id \notin DOMAIN st.backups
    THEN RestoreNoBackup(st, user_id)
    ELSE LET backup == st.backups[user_id]
             done == RestoreLoop([st |-> PruneStale(st, user_id, backup),
                                  restored |-> 0],
                                 user_id, backup, order)
             after == RecomputeUsed(done.st, user_id)
         IN  [st |-> [after EXCEPT !.backups = Pop(after.backups, user_id)],
              ret |-> Some(done.restored)]

\* order: the iteration order of the snapshot dictionary (a sequence that
\* enumerates its keys); irrelevant when there is no snapshot.
restore_user(st, user_id, order) ==
    IF user_id # ADMIN /\ user_id \notin DOMAIN st.users
    THEN [st |-> st, ret |-> None]
    ELSE IF user_id \notin DOMAIN st.backups
    THEN RestoreNoBackup(st, user_id)
    ELSE LET backup == st.backups[user_id]
             done == RestoreLoop([st |-> PruneStale(st, user_id, backup),
                                  restored |-> 0],
                                 user_id, backup, order)
         IN  [st |-> RecomputeUsed(done.st, user_id),
              ret |-> Some(done.restored)]

\* All sequences that enumerate the set S once each.
Orders(S) ==
    { o \in [1..Cardinality(S) -> S] : \A i, j \in DOMAIN o : i # j => o[i] # o[j] }

\* The iteration orders a snapshot dictionary of identity id can have.
SnapshotOrders(st, id) ==
    IF id \in DOMAIN st.backups THEN Orders(DOMAIN st.backups[id]) ELSE { << >> }

\* ------------------------------------------------------------------------
\* The state machine: one action per public method
\* ------------------------------------------------------------------------
Init ==
    /\ files = EmptyDict
    /\ owners = EmptyDict
    /\ users = EmptyDict
    /\ backups = EmptyDict
    /\ pre = EmptyEngine
    /\ last = [op |-> "init", args |-> << >>, ret |-> None]
    /\ nops = 0

\* Perform a call whose outcome is r = [st, ret].
Call(op, args, r) ==
    /\ nops < MaxOps
    /\ nops' = nops + 1
    /\ files' = r.st.files
    /\ owners' = r.st.owners
    /\ users' = r.st.users
    /\ backups' = r.st.backups
    /\ pre' = St
    /\ last' = [op |-> op, args |-> args, ret |-> r.ret]

AddFile ==
    \E name \in Names, size \in Sizes :
        Call("add_file", << name, size >>, add_file(St, name, size))

GetFileSize ==
    \E name \in Names :
        Call("get_file_size", << name >>, get_file_size(St, name))

DeleteFile ==
    \E name \in Names :
        Call("delete_file", << name >>, delete_file(St, name))

GetNLargest ==
    \E prefix \in Prefixes, n \in Counts :
        Call("get_n_largest", << prefix, n >>, get_n_largest(St, prefix, n))

AddUser ==
    \E user_id \in Ids, capacity \in Caps :
        Call("add_user", << user_id, capacity >>, add_user(St, user_id, capacity))

AddFileBy ==
    \E user_id \in Ids, name \in Names, size \in Sizes :
        Call("add_file_by", << user_id, name, size >>,
             add_file_by(St, user_id, name, size))

\* Capacities only grow through merges; MaxMergedCap keeps them bounded.
MergeUser ==
    \E user_id_1 \in Ids, user_id_2 \in Ids :
        /\ ({user_id_1, user_id_2} \subseteq DOMAIN users /\ user_id_1 # user_id_2)
              => users[user_id_1].capacity + users[user_id_2].capacity <= MaxMergedCap
        /\ Call("merge_user", << user_id_1, user_id_2 >>,
                merge_user(St, user_id_1, user_id_2))

BackupUser ==
    \E user_id \in Ids :
        Call("backup_user", << user_id >>, backup_user(St, user_id))

RestoreUser ==
    \E user_id \in Ids :
        \E order \in SnapshotOrders(St, user_id) :
            Call("restore_user", << user_id >>, restore_user(St, user_id, order))

Next ==
    \/ AddFile
    \/ GetFileSize
    \/ DeleteFile
    \/ GetNLargest
    \/ AddUser
    \/ AddFileBy
    \/ MergeUser
    \/ BackupUser
    \/ RestoreUser

Spec == Init /\ [][Next]_vars

\* ========================================================================
\* Properties
\* ========================================================================
\* The last call was op and it was made in state pre.
Called(op) == last.op = op
Arg(i) == last.args[i]
Registered(st, id) == id \in DOMAIN st.users
Exists(st, name) == name \in DOMAIN st.files
SameEngine(s, t) ==
    /\ s.files = t.files
    /\ s.owners = t.owners
    /\ s.users = t.users
    /\ s.backups = t.backups

\* ------------------------------------------------------------------------
\* C1: in every reachable state, the used of every registered user equals
\* the sum of the sizes of the files whose owner link is that user, and is
\* never negative (all sizes passed in are non-negative).
C1_UsedIsSumOfOwned ==
    \A u \in DOMAIN users :
        /\ users[u].used = SumOver(files, OwnedBy(St, u))
        /\ users[u].used >= 0

\* A merge has just joined two users who both owned files of positive size.
C1_Witness ==
    /\ Called("merge_user")
    /\ last.ret # None
    /\ pre.users[Arg(1)].used > 0
    /\ pre.users[Arg(2)].used > 0
    /\ users[Arg(1)].used = 2

\* ------------------------------------------------------------------------
\* C2: add_file and add_file_by on a name that already exists, whoever owns
\* it, report failure (False / None) and leave files, owner links, user
\* records and snapshots unchanged.
C2_AddExistingFails ==
    /\ (Called("add_file") /\ Exists(pre, Arg(1)))
          => (last.ret = FALSE /\ SameEngine(St, pre))
    /\ (Called("add_file_by") /\ Exists(pre, Arg(2)))
          => (last.ret = None /\ SameEngine(St, pre))

\* add_file_by by a registered user with room to spare, on a name that another
\* identity owns with a different size: only the name's existence stops it.
C2_Witness ==
    /\ Called("add_file_by")
    /\ Exists(pre, Arg(2))
    /\ Registered(pre, Arg(1))
    /\ pre.owners[Arg(2)] # Arg(1)
    /\ pre.users[Arg(1)].used + Arg(3) <= pre.users[Arg(1)].capacity
    /\ files[Arg(2)] # Arg(3)

\* ------------------------------------------------------------------------
\* C3: for a registered user u and a name that does not exist,
\* add_file_by(u, name, size) is accepted exactly when used + size <= capacity;
\* when accepted the file exists with that size and owner u, used grows by
\* size, the result is capacity - used after the update and used <= capacity;
\* when rejected the result is None and nothing changes.
C3_AddFileByQuota ==
    (Called("add_file_by") /\ Registered(pre, Arg(1)) /\ ~Exists(pre, Arg(2))) =>
        LET u == Arg(1)
            name == Arg(2)
            size == Arg(3)
            old == pre.users[u]
        IN  IF old.used + size <= old.capacity
            THEN /\ last.ret = Some(users[u].capacity - users[u].used)
                 /\ files = Put(pre.files, name, size)
                 /\ owners = Put(pre.owners, name, u)
                 /\ users = [pre.users EXCEPT ![u].used = old.used + size]
                 /\ users[u].used <= users[u].capacity
                 /\ backups = pre.backups
            ELSE last.ret = None /\ SameEngine(St, pre)

\* An accepted call that fills the quota exactly, on top of earlier usage.
C3_Witness ==
    /\ Called("add_file_by")
    /\ Registered(pre, Arg(1))
    /\ ~Exists(pre, Arg(2))
    /\ Arg(3) > 0
    /\ pre.users[Arg(1)].used > 0
    /\ last.ret = Some(0)
    /\ users[Arg(1)].used = users[Arg(1)].capacity

\* ------------------------------------------------------------------------
\* C4: after merge_user(a, b) succeeds, b is not registered, so add_file_by,
\* backup_user, restore_user and merge_user naming b all fail; every file b
\* owned is owned by a with its size unchanged and no other owner link
\* changes; a's capacity and used are the sums of the two prior values; the
\* result is a's capacity - used after the merge.
C4_MergeEffect ==
    (Called("merge_user") /\ last.ret # None) =>
        LET a == Arg(1)
            b == Arg(2)
        IN  /\ ~Registered(St, b)
            /\ \A name \in Names, size \in Sizes :
                   add_file_by(St, b, name, size).ret = None
            /\ backup_user(St, b).ret = None
            /\ \A order \in SnapshotOrders(St, b) :
                   restore_user(St, b, order).ret = None
            /\ \A other \in Ids :
                   /\ merge_user(St, other, b).ret = None
                   /\ merge_user(St, b, other).ret = None
            /\ files = pre.files
            /\ DOMAIN owners = DOMAIN pre.owners
            /\ \A p \in DOMAIN owners :
                   owners[p] = IF pre.owners[p] = b THEN a ELSE pre.owners[p]
            /\ users[a].capacity = pre.users[a].capacity + pre.users[b].capacity
            /\ users[a].used = pre.users[a].used + pre.users[b].used
            /\ last.ret = Some(users[a].capacity - users[a].used)

\* A successful merge in which both users owned a file.
C4_Witness ==
    /\ Called("merge_user")
    /\ last.ret # None
    /\ OwnedBy(pre, Arg(1)) # {}
    /\ OwnedBy(pre, Arg(2)) # {}
    /\ OwnedBy(St, Arg(1)) = OwnedBy(pre, Arg(1)) \cup OwnedBy(pre, Arg(2))

\* ------------------------------------------------------------------------
\* C5: in every reachable state and for every identity that is "admin" or a
\* registered user, backup_user(id) immediately followed by restore_user(id)
\* leaves files, sizes, owner links and user records as they were before the
\* backup, and restore_user returns what backup_user returned: the number of
\* files id owned at backup time.
C5_BackupThenRestore ==
    \A id \in Ids :
        (id = ADMIN \/ Registered(St, id)) =>
            LET b == backup_user(St, id)
            IN  /\ b.ret = Some(Cardinality(OwnedBy(St, id)))
                /\ \A order \in SnapshotOrders(b.st, id) :
                       LET r == restore_user(b.st, id, order)
                       IN  /\ r.st.files = files
                           /\ r.st.owners = owners
                           /\ r.st.users = users
                           /\ r.ret = b.ret

\* restore_user(id) has just run in a state that backup_user(id) leaves as it
\* is (the snapshot of id is exactly what id owns), id owning a file of
\* positive size and another identity owning a file too.
C5_Witness ==
    /\ Called("restore_user")
    /\ Arg(1) \in DOMAIN pre.backups
    /\ SameEngine(backup_user(pre, Arg(1)).st, pre)
    /\ \E p \in OwnedBy(pre, Arg(1)) : pre.files[p] > 0
    /\ \E p \in DOMAIN pre.owners : pre.owners[p] # Arg(1)
    /\ last.ret = Some(Cardinality(OwnedBy(pre, Arg(1))))
    /\ SameEngine(St, pre)

\* ------------------------------------------------------------------------
\* C6: for a registered user u with a snapshot S, restore_user(u) returns the
\* number of names of S that do not exist or are owned by u; afterwards u owns
\* exactly those names, each with the size recorded in S, every file u owned
\* that S does not name is gone, and u's used is the sum of those sizes.
Restorable(st, u) ==
    { p \in DOMAIN st.backups[u] : ~Exists(st, p) \/ st.owners[p] = u }

C6_RestoreUserWithSnapshot ==
    (Called("restore_user") /\ Registered(pre, Arg(1))
                            /\ Arg(1) \in DOMAIN pre.backups) =>
        LET u == Arg(1)
            S == pre.backups[u]
            R == Restorable(pre, u)
        IN  /\ last.ret = Some(Cardinality(R))
            /\ OwnedBy(St, u) = R
            /\ \A p \in R : files[p] = S[p]
            /\ \A p \in OwnedBy(pre, u) \ DOMAIN S : ~Exists(St, p)
            /\ users[u].used = SumOver(S, R)

\* A restore whose snapshot names a file that meanwhile belongs to someone
\* else with another size (skipped, not counted, size and owner kept).
C6_Witness ==
    /\ Called("restore_user")
    /\ Registered(pre, Arg(1))
    /\ Arg(1) \in DOMAIN pre.backups
    /\ \E p \in DOMAIN pre.backups[Arg(1)] :
           /\ Exists(pre, p)
           /\ pre.owners[p] # Arg(1)
           /\ pre.files[p] # pre.backups[Arg(1)][p]
           /\ owners[p] = pre.owners[p]
           /\ files[p] = pre.files[p]
    /\ last.ret = Some(Cardinality(DOMAIN pre.backups[Arg(1)]) - 1)

\* A restore that re-creates a deleted file, overwrites the size of a file the
\* user still owns, or drops a file added after the backup.
C6_WitnessRecreate ==
    /\ Called("restore_user")
    /\ Registered(pre, Arg(1))
    /\ Arg(1) \in DOMAIN pre.backups
    /\ \E p \in DOMAIN pre.backups[Arg(1)] : ~Exists(pre, p) /\ Exists(St, p)
    /\ \E p \in OwnedBy(pre, Arg(1)) : ~Exists(St, p)

\* ------------------------------------------------------------------------
\* C7: get_n_largest(prefix, n) returns the first min(n, number of matches)
\* entries of the files whose name starts with prefix, ordered by size
\* descending and then name ascending, each formatted "name(size)"; files
\* without the prefix never appear, n = 0 gives the empty list, and no state
\* changes.
HasPrefix(path, prefix) ==
    \E k \in 0..Len(path) : [i \in 1..k |-> path[i]] = prefix

\* (name, size) is ranked before (name2, size2).
RankedBefore(name, size, name2, size2) ==
    \/ size > size2
    \/ (size = size2 /\ StrLess(name, name2))

\* "name(size)" for a size of one decimal digit.
Entry(name, size) == name \o << 40, 48 + size, 41 >>

C7_NLargest ==
    Called("get_n_largest") =>
        LET prefix == Arg(1)
            n == Arg(2)
            M == { p \in DOMAIN pre.files : HasPrefix(p, prefix) }
            k == IF n <= Cardinality(M) THEN n ELSE Cardinality(M)
        IN  /\ SameEngine(St, pre)
            /\ Len(last.ret) = k
            /\ \E pick \in [1..k -> M] :
                   /\ \A i \in 1..k : last.ret[i] = Entry(pick[i], pre.files[pick[i]])
                   /\ \A i, j \in 1..k :
                          i < j => RankedBefore(pick[i], pre.files[pick[i]],
                                                pick[j], pre.files[pick[j]])
                   /\ \A i \in 1..k :
                          \A m \in M \ { pick[j] : j \in 1..k } :
                              RankedBefore(pick[i], pre.files[pick[i]],
                                           m, pre.files[m])

\* Two files match, the longer name is the larger file, and one is asked for.
C7_Witness ==
    /\ Called("get_n_largest")
    /\ Arg(1) = << 97 >>
    /\ Arg(2) = 1
    /\ DOMAIN files = Names
    /\ files[<< 97, 98 >>] > files[<< 97 >>]
    /\ last.ret = << << 97, 98, 40, 49, 41 >> >>

\* Two matching files of equal size: the smaller name first.
C7_WitnessTie ==
    /\ Called("get_n_largest")
    /\ Arg(2) = 2
    /\ DOMAIN files = Names
    /\ files[<< 97, 98 >>] = files[<< 97 >>]
    /\ Len(last.ret) = 2
    /\ last.ret[1] = Entry(<< 97 >>, files[<< 97 >>])

\* ------------------------------------------------------------------------
\* C8: add_user(user_id, capacity) returns False exactly when user_id is
\* "admin" or already registered, and then changes nothing; otherwise it
\* returns True and registers user_id with that capacity and used = 0,
\* changing nothing else.
C8_AddUser ==
    Called("add_user") =>
        LET user_id == Arg(1)
            capacity == Arg(2)
        IN  IF user_id = ADMIN \/ Registered(pre, user_id)
            THEN last.ret = FALSE /\ SameEngine(St, pre)
            ELSE /\ last.ret = TRUE
                 /\ DOMAIN users = DOMAIN pre.users \cup { user_id }
                 /\ users[user_id] = [capacity |-> capacity, used |-> 0]
                 /\ \A u \in DOMAIN pre.users : users[u] = pre.users[u]
                 /\ files = pre.files
                 /\ owners = pre.owners
                 /\ backups = pre.backups

\* add_user on a registered user that has used space, with another capacity.
C8_Witness ==
    /\ Called("add_user")
    /\ Registered(pre, Arg(1))
    /\ pre.users[Arg(1)].used > 0
    /\ pre.users[Arg(1)].capacity # Arg(2)
    /\ last.ret = FALSE

\* ------------------------------------------------------------------------
\* C9: delete_file(name) on an existing file returns its size, removes the
\* file and its owner link (get_file_size is then None and the name can be
\* added again), decreases the used of the owning registered user by that
\* size and leaves every other file, user and snapshot unchanged; on an
\* absent name it returns None and changes nothing.
C9_DeleteFile ==
    Called("delete_file") =>
        LET name == Arg(1)
        IN  IF Exists(pre, name)
            THEN LET size == pre.files[name]
                     owner == pre.owners[name]
                 IN  /\ last.ret = Some(size)
                     /\ DOMAIN files = DOMAIN pre.files \ { name }
                     /\ DOMAIN owners = DOMAIN pre.owners \ { name }
                     /\ \A p \in DOMAIN files :
                            files[p] = pre.files[p] /\ owners[p] = pre.owners[p]
                     /\ get_file_size(St, name).ret = None
                     /\ \A s \in Sizes : add_file(St, name, s).ret = TRUE
                     /\ DOMAIN users = DOMAIN pre.users
                     /\ \A u \in DOMAIN users :
                            /\ users[u].capacity = pre.users[u].capacity
                            /\ users[u].used =
                                  IF u = owner THEN pre.users[u].used - size
                                  ELSE pre.users[u].used
                     /\ backups = pre.backups
            ELSE last.ret = None /\ SameEngine(St, pre)

\* A registered user's file of positive size is deleted while another user
\* holds used space.
C9_Witness ==
    /\ Called("delete_file")
    /\ Exists(pre, Arg(1))
    /\ pre.files[Arg(1)] > 0
    /\ Registered(pre, pre.owners[Arg(1)])
    /\ \E u \in DOMAIN users : u # pre.owners[Arg(1)] /\ users[u].used > 0
    /\ last.ret = Some(pre.files[Arg(1)])

\* ------------------------------------------------------------------------
\* C10: restore_user(id) for "admin" or a registered user without a snapshot
\* deletes every file id owns (file and owner link), leaves the files of other
\* identities alone, sets a registered user's used to 0 and returns 0.
C10_RestoreWithoutSnapshot ==
    (Called("restore_user") /\ (Arg(1) = ADMIN \/ Registered(pre, Arg(1)))
                            /\ Arg(1) \notin DOMAIN pre.backups) =>
        LET id == Arg(1)
            kept == DOMAIN pre.files \ OwnedBy(pre, id)
        IN  /\ last.ret = Some(0)
            /\ DOMAIN files = kept
            /\ DOMAIN owners = kept
            /\ \A p \in kept : files[p] = pre.files[p] /\ owners[p] = pre.owners[p]
            /\ Registered(pre, id) => users[id].used = 0

\* A registered user with used space and no snapshot restores while another
\* identity owns a file.
C10_Witness ==
    /\ Called("restore_user")
    /\ Registered(pre, Arg(1))
    /\ Arg(1) \notin DOMAIN pre.backups
    /\ pre.users[Arg(1)].used > 0
    /\ DOMAIN files # {}
    /\ last.ret = Some(0)

\* ------------------------------------------------------------------------
\* C11: after restore_user("admin") with an admin snapshot S, the files owned
\* by admin are exactly the names of S, each with the size recorded in S, and
\* the result is the number of entries of S; every registered user that owned
\* a name of S before the call has its used decreased by that file's size as
\* it was just before the restore, and no longer owns the file.
ReclaimedFrom(st, S, u) ==
    { p \in DOMAIN S : Exists(st, p) /\ st.owners[p] = u }

C11_AdminRestore ==
    (Called("restore_user") /\ Arg(1) = ADMIN /\ ADMIN \in DOMAIN pre.backups) =>
        LET S == pre.backups[ADMIN]
        IN  /\ OwnedBy(St, ADMIN) = DOMAIN S
            /\ \A p \in DOMAIN S : files[p] = S[p]
            /\ last.ret = Some(Cardinality(DOMAIN S))
            /\ DOMAIN users = DOMAIN pre.users
            /\ \A u \in DOMAIN pre.users :
                   /\ users[u].used = pre.users[u].used
                                        - SumOver(pre.files, ReclaimedFrom(pre, S, u))
                   /\ OwnedBy(St, u) = OwnedBy(pre, u) \ DOMAIN S

\* Admin takes back a name that a registered user holds with a positive size.
C11_Witness ==
    /\ Called("restore_user")
    /\ Arg(1) = ADMIN
    /\ ADMIN \in DOMAIN pre.backups
    /\ \E p \in DOMAIN pre.backups[ADMIN] :
           /\ Exists(pre, p)
           /\ Registered(pre, pre.owners[p])
           /\ pre.files[p] > 0
           /\ users[pre.owners[p]].used < pre.users[pre.owners[p]].used
           /\ owners[p] = ADMIN

\* ------------------------------------------------------------------------
\* C12: backup_user(id), for "admin" or a registered user, returns the number
\* of files id owns and changes nothing but id's snapshot slot, which then
\* holds exactly the files id owns now, whatever an earlier backup recorded;
\* a restore_user(id) that follows gives id the file set and sizes of that
\* later snapshot only, and re-creates nothing that only the earlier snapshot
\* named.
OwnedFiles(st, id) == [p \in OwnedBy(st, id) |-> st.files[p]]

C12_LaterBackupWins ==
    /\ (Called("backup_user") /\ (Arg(1) = ADMIN \/ Registered(pre, Arg(1)))) =>
          LET id == Arg(1)
              later == OwnedFiles(pre, id)
          IN  /\ last.ret = Some(Cardinality(OwnedBy(pre, id)))
              /\ files = pre.files
              /\ owners = pre.owners
              /\ users = pre.users
              /\ DOMAIN backups = DOMAIN pre.backups \cup { id }
              /\ backups[id] = later
              /\ \A other \in DOMAIN pre.backups \ { id } :
                     backups[other] = pre.backups[other]
              /\ \A order \in SnapshotOrders(St, id) :
                     LET r == restore_user(St, id, order)
                     IN  /\ OwnedFiles(r.st, id) = later
                         /\ id \in DOMAIN pre.backups =>
                               \A p \in DOMAIN pre.backups[id] \ DOMAIN later :
                                   ~Exists(St, p) => ~Exists(r.st, p)
    /\ (Called("restore_user") /\ Arg(1) \in DOMAIN pre.backups) =>
          \A p \in OwnedBy(St, Arg(1)) :
              /\ p \in DOMAIN pre.backups[Arg(1)]
              /\ files[p] = pre.backups[Arg(1)][p]

\* A second backup of an identity whose earlier snapshot names a file that
\* has since been deleted, and that now owns a file the earlier one lacks.
C12_Witness ==
    /\ Called("backup_user")
    /\ Arg(1) \in DOMAIN pre.backups
    /\ \E p \in DOMAIN pre.backups[Arg(1)] : ~Exists(St, p)
    /\ \E q \in DOMAIN backups[Arg(1)] : q \notin DOMAIN pre.backups[Arg(1)]
    /\ last.ret = Some(1)

\* ------------------------------------------------------------------------
\* C13: a snapshot never outlives its user.  In every reachable state a
\* snapshot exists only for "admin" or a registered user; a successful
\* merge_user(a, b) removes b's snapshot and leaves every other snapshot, a's
\* included, unchanged; a user that has just been registered has no snapshot,
\* so restore_user returns 0 for it and creates no file.
C13_SnapshotDiesWithUser ==
    /\ DOMAIN backups \subseteq { ADMIN } \cup DOMAIN users
    /\ (Called("merge_user") /\ last.ret # None) =>
          /\ Arg(2) \notin DOMAIN backups
          /\ DOMAIN backups = DOMAIN pre.backups \ { Arg(2) }
          /\ \A id \in DOMAIN backups : backups[id] = pre.backups[id]
    /\ (Called("add_user") /\ last.ret = TRUE) =>
          /\ Arg(1) \notin DOMAIN backups
          /\ \A order \in SnapshotOrders(St, Arg(1)) :
                 LET r == restore_user(St, Arg(1), order)
                 IN  /\ r.ret = Some(0)
                     /\ DOMAIN r.st.files \subseteq DOMAIN files

\* A merge that discards a snapshot of b naming a file while a has a snapshot.
C13_Witness ==
    /\ Called("merge_user")
    /\ last.ret # None
    /\ Arg(2) \in DOMAIN pre.backups
    /\ DOMAIN pre.backups[Arg(2)] # {}
    /\ Arg(1) \in DOMAIN backups
    /\ Arg(2) \notin DOMAIN backups

\* A user id is registered again after a merge removed it: the only other
\* user holds a capacity that add_user alone cannot give.
C13_WitnessReRegistered ==
    /\ Called("add_user")
    /\ last.ret = TRUE
    /\ \E a \in DOMAIN pre.users : pre.users[a].capacity > MaxCap
    /\ Arg(1) \notin DOMAIN backups

\* ------------------------------------------------------------------------
\* C14: in every reachable state the file-size map and the owner map have the
\* same names, and every owner is "admin" or a registered user.
C14_OwnersConsistent ==
    /\ DOMAIN files = DOMAIN owners
    /\ \A p \in DOMAIN owners : owners[p] = ADMIN \/ Registered(St, owners[p])

\* A merge has just removed a user that owned a file, admin owning one too.
C14_Witness ==
    /\ Called("merge_user")
    /\ last.ret # None
    /\ OwnedBy(pre, Arg(2)) # {}
    /\ OwnedBy(St, ADMIN) # {}
    /\ \A p \in OwnedBy(pre, Arg(2)) : owners[p] = Arg(1)

\* ------------------------------------------------------------------------
\* C15: a call that reports failure changes nothing: merge_user with an
\* unregistered id on either side or with id1 = id2, backup_user and
\* restore_user with an id that is neither "admin" nor registered, and
\* add_file_by with an unregistered user all return None and leave files,
\* owner links, user records and snapshots as they were.
C15_FailuresChangeNothing ==
    /\ (Called("merge_user") /\ (\/ ~Registered(pre, Arg(1))
                                 \/ ~Registered(pre, Arg(2))
                                 \/ Arg(1) = Arg(2)))
          => (last.ret = None /\ SameEngine(St, pre))
    /\ (Called("backup_user") /\ Arg(1) # ADMIN /\ ~Registered(pre, Arg(1)))
          => (last.ret = None /\ SameEngine(St, pre))
    /\ (Called("restore_user") /\ Arg(1) # ADMIN /\ ~Registered(pre, Arg(1)))
          => (last.ret = None /\ SameEngine(St, pre))
    /\ (Called("add_file_by") /\ ~Registered(pre, Arg(1)))
          => (last.ret = None /\ SameEngine(St, pre))
    /\ (Called("merge_user") \/ Called("backup_user") \/ Called("restore_user")
           \/ Called("add_file_by") \/ Called("delete_file"))
          => (last.ret = None => SameEngine(St, pre))
    /\ (Called("add_file") \/ Called("add_user"))
          => (last.ret = FALSE => SameEngine(St, pre))

\* A user that owns a file and has a snapshot is merged with itself.
C15_Witness ==
    /\ Called("merge_user")
    /\ Arg(1) = Arg(2)
    /\ Registered(pre, Arg(1))
    /\ pre.users[Arg(1)].capacity > 0
    /\ OwnedBy(pre, Arg(1)) # {}
    /\ Arg(1) \in DOMAIN pre.backups
    /\ last.ret = None

\* ------------------------------------------------------------------------
\* C16: restore_user(u) for a registered user u leaves every file that another
\* identity owned just before the call in place with its size and owner, and
\* leaves every other user's record unchanged; a snapshot entry whose name
\* belongs to someone else is skipped and not counted.
ForeignEntries(st, u) ==
    { p \in DOMAIN st.backups[u] : Exists(st, p) /\ st.owners[p] # u }

C16_UserRestoreFrame ==
    (Called("restore_user") /\ Registered(pre, Arg(1))) =>
        LET u == Arg(1)
        IN  /\ \A p \in DOMAIN pre.files :
                   pre.owners[p] # u =>
                       /\ Exists(St, p)
                       /\ files[p] = pre.files[p]
                       /\ owners[p] = pre.owners[p]
            /\ DOMAIN users = DOMAIN pre.users
            /\ \A v \in DOMAIN users \ { u } : users[v] = pre.users[v]
            /\ u \in DOMAIN pre.backups =>
                   last.ret = Some(Cardinality(DOMAIN pre.backups[u])
                                     - Cardinality(ForeignEntries(pre, u)))

\* The only entry of the user's snapshot names a file that admin now holds
\* with a positive size: nothing is restored and nothing changes.
C16_Witness ==
    /\ Called("restore_user")
    /\ Registered(pre, Arg(1))
    /\ Arg(1) \in DOMAIN pre.backups
    /\ ForeignEntries(pre, Arg(1)) # {}
    /\ \A p \in ForeignEntries(pre, Arg(1)) : pre.files[p] > 0
    /\ last.ret = Some(0)
    /\ SameEngine(St, pre)

\* ------------------------------------------------------------------------
\* C17: a snapshot changes only through backup_user of the same identity or
\* through merge_user removing that identity: add_file, add_file_by,
\* delete_file, add_user, restore_user and the two queries leave every
\* snapshot unchanged, so a second restore_user(id) right after the first
\* returns the same count and changes no state.
C17_SnapshotsAreStable ==
    /\ (\/ Called("add_file") \/ Called("add_file_by") \/ Called("delete_file")
        \/ Called("add_user") \/ Called("restore_user")
        \/ Called("get_file_size") \/ Called("get_n_largest"))
          => backups = pre.backups
    /\ Called("backup_user") =>
          \A id \in DOMAIN pre.backups \ { Arg(1) } :
              id \in DOMAIN backups /\ backups[id] = pre.backups[id]
    /\ Called("merge_user") =>
          \A id \in DOMAIN pre.backups \ { Arg(2) } :
              id \in DOMAIN backups /\ backups[id] = pre.backups[id]
    /\ (Called("restore_user") /\ last.ret # None) =>
          \A order \in SnapshotOrders(St, Arg(1)) :
              LET again == restore_user(St, Arg(1), order)
              IN  again.ret = last.ret /\ SameEngine(again.st, St)

\* A restore from a snapshot that brought back a file and counted it.
C17_Witness ==
    /\ Called("restore_user")
    /\ Arg(1) \in DOMAIN backups
    /\ \E p \in DOMAIN backups[Arg(1)] : ~Exists(pre, p) /\ Exists(St, p)
    /\ last.ret # Some(0)
    /\ backups = pre.backups

\* ------------------------------------------------------------------------
\* C18: a user's capacity is the one given to add_user and changes only in a
\* successful merge_user in which the user is id1, where it becomes the sum of
\* both capacities; every other call, restore_user included, leaves every
\* capacity unchanged.
C18_CapacityChangesOnlyByMerge ==
    /\ \A u \in DOMAIN users \cap DOMAIN pre.users :
           users[u].capacity =
               IF Called("merge_user") /\ last.ret # None /\ u = Arg(1)
               THEN pre.users[Arg(1)].capacity + pre.users[Arg(2)].capacity
               ELSE pre.users[u].capacity
    /\ \A u \in DOMAIN users \ DOMAIN pre.users :
           /\ Called("add_user")
           /\ u = Arg(1)
           /\ users[u].capacity = Arg(2)

\* A user whose capacity comes from a merge restores a snapshot, which drops
\* a file it owned; the merged capacity stays.
C18_Witness ==
    /\ Called("restore_user")
    /\ Registered(pre, Arg(1))
    /\ Arg(1) \in DOMAIN pre.backups
    /\ pre.users[Arg(1)].capacity > MaxCap
    /\ files # pre.files
    /\ users[Arg(1)].capacity = pre.users[Arg(1)].capacity

\* ------------------------------------------------------------------------
\* C19: with non-negative sizes and capacities, used <= capacity holds for
\* every registered user in every reachable state, also right after
\* merge_user and restore_user, which do not test the capacity.
C19_UsedWithinCapacity ==
    \A u \in DOMAIN users : users[u].used <= users[u].capacity

\* A restore from a snapshot has raised a user's used to its full capacity.
C19_Witness ==
    /\ Called("restore_user")
    /\ Registered(pre, Arg(1))
    /\ Arg(1) \in DOMAIN pre.backups
    /\ users[Arg(1)].used > pre.users[Arg(1)].used
    /\ users[Arg(1)].used = users[Arg(1)].capacity

\* ------------------------------------------------------------------------
\* C20: the outcome of restore_user (files, sizes, owner links, every user's
\* used, the snapshots and the returned count) is the same for every order in
\* which the snapshot's entries are processed, for admin and for registered
\* users, in every reachable state.
C20_RestoreOrderIndependent ==
    /\ \A id \in Ids :
           \A o1, o2 \in SnapshotOrders(St, id) :
               restore_user(St, id, o1) = restore_user(St, id, o2)
    /\ Called("restore_user") =>
           \A order \in SnapshotOrders(pre, Arg(1)) :
               LET r == restore_user(pre, Arg(1), order)
               IN  r.ret = last.ret /\ SameEngine(r.st, St)

\* A restore from a snapshot of two entries, one re-created and one found in
\* place.
C20_Witness ==
    /\ Called("restore_user")
    /\ Arg(1) \in DOMAIN pre.backups
    /\ Cardinality(DOMAIN pre.backups[Arg(1)]) = 2
    /\ \E p \in DOMAIN pre.backups[Arg(1)] : ~Exists(pre, p) /\ Exists(St, p)
    /\ \E q \in DOMAIN pre.backups[Arg(1)] : Exists(pre, q)
    /\ last.ret = Some(2)

====
